---- MODULE Spec2Model ----
(***************************************************************************)
(* Verification model of the ChitChat client's synchronisation layer:      *)
(*   - ApiService.makeRequest (timeout, retry, response decoding),         *)
(*   - AuthProvider and ApiService's session methods (restore, login,      *)
(*     register, logout, localStorage, request headers, notifications),    *)
(*   - ChatProvider (rooms, messages, optimistic send, push handling,      *)
(*     STOMP connection and subscriptions),                                *)
(*   - ErrorHandler (the notification of each fault, retry callbacks).     *)
(* SpecReq runs one makeRequest call against a scripted network.  SpecAuth *)
(* runs AuthProvider from application start; SpecHdr adds the other        *)
(* requests ApiService sends.  SpecWs, SpecConn, SpecLive and SpecMsg run  *)
(* ChatProvider from its construction: SpecWs the session, the channel and *)
(* the room list; SpecConn the channel alone; SpecLive the channel with a  *)
(* server that accepts connections; SpecMsg the messages of one session.   *)
(* SpecSub is SpecLive with sockets of deactivated clients closing;        *)
(* SpecLoad and SpecActivate run loadMessages and room activation; SpecErr *)
(* runs ErrorHandler; SpecCred is SpecAuth with handleAuthenticationError. *)
(***************************************************************************)
EXTENDS Integers, Sequences, FiniteSets, TLC

VARIABLES
  \* ---- ApiService.makeRequest, one call ----
  script,      \* what the network gives on the 1st, 2nd, ... fetch of the call
  reqPc,       \* "fetch" | "delay" | "done"
  retries,     \* the `retries` parameter of the running makeRequest frame
  attempts,    \* number of fetch() calls made so far by the call
  result       \* what the call gave its caller (NoResult while running)

reqVars == <<script, reqPc, retries, attempts, result>>

VARIABLES
  \* ---- useAuth(), as ChatProvider reads it ----
  isAuthenticated,
  token,             \* "null" or the session's token
  currentUser,       \* "null" or the user's id
  \* ---- ChatProvider state ----
  chats,             \* useState<Chat[]>: the canonical rooms
  activeChat,        \* useState<Chat | null>: the active-room mirror (a copy)
  isWebSocketConnected,
  stompClientRef,    \* 0 (null) or the index in `clients` of ref.current
  clients,           \* every STOMP Client constructed so far
  \* ---- asynchronous calls of ChatProvider that are in flight ----
  sends,             \* every sendMessage call made, with its position
  loads,             \* loadChats calls awaiting getRooms(), by what they captured
  creates,           \* createRoom calls awaiting apiService.createRoom()
  \* ---- environment ----
  subs,              \* STOMP subscriptions held by connected clients
  deliveries,        \* frames the broker has sent to a subscription, not yet handled
  now,               \* Date.now()
  srvNext,           \* next message id the server issues
  nLogins, nLoadCalls, nCreates   \* calls made so far (they bound the run)

VARIABLES
  \* ---- AuthProvider, ApiService's session methods, ErrorHandler ----
  storage,           \* localStorage: key -> "null" or the stored value
  isLoading,         \* AuthProvider's useState(true)
  calls,             \* checkAuthStatus and every login/register/logout/ApiService call made
  notifications,     \* context -> notifications handleError has dispatched
  request            \* the fetch() attempt issued last: its Authorization
                     \* header and the token storage held at that moment

sessVars == <<storage, isLoading, calls, notifications, request>>

VARIABLES
  \* ---- ChatProvider.loadMessages ----
  msgLoads           \* every loadMessages call made, with its position and,
                     \* once getRoomMessages() has resolved, the fetched list

loadVars == <<msgLoads>>

VARIABLES
  \* ---- ErrorHandler and NotificationProvider ----
  retryCallbacks,      \* Map<string, callback>: key -> "none" or the callback
  shownNotifications,  \* NotificationProvider's useState<ErrorNotification[]>
  handled,             \* the handleError call a component made last: the
                       \* error, the context, and what the call gave
  triggers,            \* every click on a notification's action button,
                       \* with what the action did
  nAuthErrors          \* handleAuthenticationError calls made so far (they
                       \* bound the run)

errVars == <<retryCallbacks, shownNotifications, handled, triggers,
             nAuthErrors>>

authVars == <<isAuthenticated, token, currentUser>>
wsVars == <<isWebSocketConnected, stompClientRef, clients, subs, deliveries>>
chatVars == <<isAuthenticated, token, currentUser, chats, activeChat,
              isWebSocketConnected, stompClientRef, clients, sends, loads,
              creates, subs, deliveries, now, srvNext, nLogins, nLoadCalls,
              nCreates>>

vars == <<script, reqPc, retries, attempts, result,
          isAuthenticated, token, currentUser, chats, activeChat,
          isWebSocketConnected, stompClientRef, clients, sends, loads,
          creates, subs, deliveries, now, srvNext, nLogins, nLoadCalls,
          nCreates, storage, isLoading, calls, notifications, request,
          msgLoads, retryCallbacks, shownNotifications, handled, triggers,
          nAuthErrors>>

(***************************************************************************)
(* ApiService.makeRequest                                                  *)
(***************************************************************************)

\* API_CONFIG.RETRY_ATTEMPTS, the default of makeRequest's `retries`
RETRY_ATTEMPTS == 3

\* A script is long enough for every fetch a call can make: the first one
\* and one per unit of `retries`.
ScriptLen == RETRY_ATTEMPTS + 1

\* What one fetch() can give: a response (its status line and headers have
\* arrived before the deadline), a rejection (no response at all), or the
\* abort raised by the deadline's AbortController while fetch() is pending.
\* Of a response: whether its fault body lists field errors, whether it has
\* the header Content-Length: 0, whether its body is empty, and whether the
\* body is complete only after the deadline.
Response(status, validationErrors, contentLength0, bodyEmpty, bodyLate) ==
  [kind |-> "response", status |-> status,
   validationErrors |-> validationErrors, contentLength0 |-> contentLength0,
   bodyEmpty |-> bodyEmpty, bodyLate |-> bodyLate]

FetchOutcomes ==
  { Response(200, FALSE, TRUE, TRUE, FALSE),
    Response(200, FALSE, FALSE, TRUE, FALSE),
    Response(200, FALSE, FALSE, FALSE, FALSE),
    Response(200, FALSE, FALSE, FALSE, TRUE) }
    \cup { Response(204, FALSE, TRUE, TRUE, FALSE) }
    \cup { Response(s, v, FALSE, FALSE, FALSE) : s \in {400, 422}, v \in BOOLEAN }
    \cup { Response(s, FALSE, FALSE, FALSE, FALSE) : s \in {500, 503} }
    \cup { [kind |-> "reject"], [kind |-> "abort"] }

NoResult == [kind |-> "none"]

ApiError(status, validationErrors) ==
  [kind |-> "throw", name |-> "ApiError", status |-> status,
   validationErrors |-> validationErrors]

ValidationError(validationErrors) ==
  [kind |-> "throw", name |-> "ValidationError", status |-> 0,
   validationErrors |-> validationErrors]

NetworkError(message) ==
  [kind |-> "throw", name |-> "NetworkError", status |-> 0,
   message |-> message]

\* What a frame returns: null or the decoded body, and whether the body was
\* complete only after the deadline.
Return(value, afterDeadline) ==
  [kind |-> "return", value |-> value, afterDeadline |-> afterDeadline]

\* response.ok
ResponseOk(r) == r.status >= 200 /\ r.status <= 299

\* response.json() of an ok response: an empty body is not JSON.  The
\* deadline's timer was cleared before the body is read, so a late body is
\* waited for.
ResponseJson(r) ==
  IF r.bodyEmpty
    THEN [kind |-> "throw", name |-> "SyntaxError", status |-> 0]
    ELSE Return("body", r.bodyLate)

\* handleResponse: a non-ok response throws ApiError with the parsed fault
\* body; 204 or Content-Length 0 gives null; anything else the decoded body.
handleResponse(r) ==
  IF ~ResponseOk(r)
    THEN ApiError(r.status, r.validationErrors)
    ELSE IF r.status = 204 \/ r.contentLength0
           THEN Return("null", FALSE)
           ELSE ResponseJson(r)

\* What the try block of makeRequest ends with: the value handleResponse
\* returns, or the error thrown by fetch or by handleResponse.
TryBlock(o) ==
  CASE o.kind = "response" -> handleResponse(o)
    [] o.kind = "abort"    -> [kind |-> "throw", name |-> "AbortError", status |-> 0]
    [] o.kind = "reject"   -> [kind |-> "throw", name |-> "TypeError", status |-> 0]

shouldRetry(error) ==
  IF error.name = "ApiError" THEN error.status >= 500 ELSE TRUE

\* A catch block that lets every error but the abort reach the retry test.
CatchBlockRetryAll(error, r) ==
  IF error.name = "AbortError"
    THEN NetworkError("Request timeout")
    ELSE IF r > 0
           THEN [kind |-> "retry"]
           ELSE IF error.name = "ApiError"
                  THEN error
                  ELSE NetworkError("Network request failed")

\* A catch block that reclassifies by the presence of field errors.
CatchBlockByFieldErrors(error, r) ==
  IF error.name = "ApiError"
    THEN IF error.validationErrors
           THEN ValidationError(error.validationErrors)
           ELSE error
    ELSE IF error.name = "AbortError"
           THEN NetworkError("Request timeout")
           ELSE IF r > 0 /\ shouldRetry(error)
                  THEN [kind |-> "retry"]
                  ELSE NetworkError("Network request failed")

\* A catch block without the AbortError test: the abort reaches the retry
\* test like any other error that is no ApiError.
CatchBlockRetryAbort(error, r) ==
  IF error.name = "ApiError"
    THEN IF error.status = 422
           THEN ValidationError(error.validationErrors)
           ELSE error
    ELSE IF r > 0 /\ shouldRetry(error)
           THEN [kind |-> "retry"]
           ELSE NetworkError("Network request failed")

\* The catch block of makeRequest, in the order of its tests.  Gives what
\* the frame throws, or "retry" when it goes on to delay and call itself.
CatchBlock(error, r) ==
  IF error.name = "ApiError"
    THEN IF error.status = 422
           THEN ValidationError(error.validationErrors)
           ELSE error
    ELSE IF error.name = "AbortError"
           THEN NetworkError("Request timeout")
           ELSE IF r > 0 /\ shouldRetry(error)
                  THEN [kind |-> "retry"]
                  ELSE NetworkError("Network request failed")

(***************************************************************************)
(* ChatProvider: data                                                      *)
(***************************************************************************)

MaxLogins == 2      \* transitions into Authenticated in one run
MaxSends == 2       \* sendMessage calls in one run
MaxLoadCalls == 1   \* loadChats calls made by the UI (the effect's are extra)
MaxCreates == 1     \* createRoom calls in one run
MaxSrvMsgs == 2     \* messages the server stores and pushes in one run
MaxClock == 1       \* Date.now() runs over 0..MaxClock
MaxErrorFrames == 1 \* STOMP ERROR frames the broker sends in one run
MaxAuthCalls == 2   \* login / register / logout calls in one run
MaxApiCalls == 1    \* other ApiService calls in one run
MaxRetries == 1     \* fetches that are rejected and retried in one run
MaxMsgLoads == 2    \* loadMessages calls in one run
MaxFetched == 2     \* messages in one getRoomMessages() response
MaxShown == 1       \* notifications on the screen at one time
MaxTriggers == 1    \* clicks on a notification's action in one run
MaxAuthErrors == 1  \* handleAuthenticationError calls in one run

Users == {"u1", "u2"}
Rooms == {"r1", "r2"}

\* A missing message (lastMessage undefined) and a null chat.
NoMsg == [id |-> <<"none", 0>>, ts |-> 0, roomId |-> "null"]
NoChat == [id |-> "null", messages |-> <<>>, lastMessage |-> NoMsg]

\* mapChatRoomResponseToChat: a room as the request channel returns it.
mapChatRoomResponseToChat(id) ==
  [id |-> id, messages |-> <<>>, lastMessage |-> NoMsg]

\* The provisional message of sendMessage: id `temp-${Date.now()}`.
optimisticMessage(roomId, t) ==
  [id |-> <<"temp", t>>, ts |-> t, roomId |-> roomId]

\* mapWebSocketMessageToMessage: a pushed message, with the server's id.
mapWebSocketMessageToMessage(n, roomId, ts) ==
  [id |-> <<"srv", n>>, ts |-> ts, roomId |-> roomId]

\* mapMessageResponseToMessage: a message as the request channel returns it.
mapMessageResponseToMessage(n, roomId, ts) ==
  [id |-> <<"srv", n>>, ts |-> ts, roomId |-> roomId]

\* Lists the server can answer getRoomMessages(roomId) with: its messages
\* 1..n of the room, in the order the server chose, each with its sentAt.
MessageLists(roomId) ==
  UNION { { [i \in 1..n |-> mapMessageResponseToMessage(i, roomId, t[i])] :
              t \in [1..n -> 0..MaxClock] } : n \in 0..MaxFetched }

\* Lists the server can answer getRooms() with.
RoomLists == { <<>>, <<"r1">>, <<"r2">>, <<"r1", "r2">> }

RoomIds(cs) == { cs[i].id : i \in DOMAIN cs }

\* activeChat?.id
ActiveId(a) == a.id

\* The message list of the first room of `cs` with this id (<<>> if none).
RoomMessages(cs, roomId) ==
  IF roomId \in RoomIds(cs)
    THEN cs[CHOOSE i \in DOMAIN cs :
              cs[i].id = roomId /\ \A j \in 1..(i-1) : cs[j].id # roomId].messages
    ELSE <<>>

InboxDest(u) == <<"inbox", u>>     \* /user/${id}/queue/messages
RoomDest(r) == <<"room", r>>       \* /topic/room/${roomId}

\* A STOMP Client with what its onConnect closure captured from the render
\* that built it: chats, currentUser, and (through handleWebSocketMessage)
\* activeChat.
NewClient(cs, a, u) ==
  [activation |-> "ACTIVE", connected |-> FALSE, everConnected |-> FALSE,
   capChats |-> [i \in DOMAIN cs |-> cs[i].id], capActive |-> ActiveId(a),
   capUser |-> u, roomsAtClose |-> {}]

DestsOf(ss, c) == { s.dest : s \in { x \in ss : x.client = c } }

(***************************************************************************)
(* ChatProvider: the handlers' state updates                               *)
(***************************************************************************)

\* handleWebSocketMessage, first setChats: append to the matching rooms.
PushToChats(cs, m) ==
  [i \in DOMAIN cs |->
     IF cs[i].id = m.roomId
       THEN [cs[i] EXCEPT !.messages = Append(@, m), !.lastMessage = m]
       ELSE cs[i]]

\* handleWebSocketMessage, second part: `activeChat` is the one the handler's
\* closure captured (cap), `prev` the state the updater is applied to.
PushToActive(prev, cap, m) ==
  IF cap = m.roomId
    THEN IF prev # NoChat
           THEN [prev EXCEPT !.messages = Append(@, m), !.lastMessage = m]
           ELSE NoChat
    ELSE prev

\* sendMessage, the optimistic setChats
OptimisticToChats(cs, m) ==
  [i \in DOMAIN cs |->
     IF cs[i].id = m.roomId
       THEN [cs[i] EXCEPT !.messages = Append(@, m)]
       ELSE cs[i]]

\* A sendMessage that does not touch the active mirror.
OptimisticToActiveSkipped(a, m) == a

\* sendMessage, the optimistic setActiveChat
OptimisticToActive(a, m) ==
  IF ActiveId(a) = m.roomId /\ a # NoChat
    THEN [a EXCEPT !.messages = Append(@, m)]
    ELSE a

\* sendMessage, the catch block's setChats: filter the provisional id out.
RevertChats(cs, roomId, optId) ==
  [i \in DOMAIN cs |->
     IF cs[i].id = roomId
       THEN [cs[i] EXCEPT !.messages =
               SelectSeq(@, LAMBDA m : m.id # optId)]
       ELSE cs[i]]

\* sendMessage, the catch block: what it does to activeChat (nothing).
RevertActive(a, roomId, optId) == a

\* The sorted list with one more element: x goes behind every element that
\* does not compare greater (a.timestamp - b.timestamp <= 0 keeps a first).
InsertByTimestamp(sq, x) ==
  LET k == Cardinality({ i \in DOMAIN sq : sq[i].ts <= x.ts })
  IN  SubSeq(sq, 1, k) \o <<x>> \o SubSeq(sq, k + 1, Len(sq))

RECURSIVE SortFrom(_, _)
SortFrom(sq, n) ==
  IF n = 0 THEN <<>> ELSE InsertByTimestamp(SortFrom(sq, n - 1), sq[n])

\* A loadMessages that stores the list as it was fetched.
SortByTimestampKeepsOrder(sq) == sq

\* messages.sort((a, b) => a.timestamp.getTime() - b.timestamp.getTime()):
\* Array.prototype.sort is stable.
SortByTimestamp(sq) == SortFrom(sq, Len(sq))

\* loadMessages, the setChats updater: the rooms with this id get the
\* sorted list.
LoadMessagesToChats(cs, roomId, messages) ==
  [i \in DOMAIN cs |->
     IF cs[i].id = roomId
       THEN [cs[i] EXCEPT !.messages = SortByTimestamp(messages)]
       ELSE cs[i]]

\* A handleSetActiveChat that loads whatever room it is given.
NeedsLoadAlways(chat) == chat # NoChat

\* handleSetActiveChat's test: chat && (!chat.messages || length === 0)
NeedsLoad(chat) == chat # NoChat /\ Len(chat.messages) = 0

\* A loadMessages call at its await.
MsgLoad(roomId, by) ==
  [roomId |-> roomId, pc |-> "awaiting", by |-> by, body |-> <<>>]

\* An early return that does not look at the client already referenced.
ConnectGuardNoRef(tok, auth, ref, cl) ==
  tok = "null" \/ ~auth

\* connectWebSocket's early return
ConnectGuard(tok, auth, ref, cl) ==
  tok = "null" \/ ~auth \/ (ref # 0 /\ cl[ref].connected)

\* connectWebSocket: <<clients, stompClientRef>> after the call
connectWebSocket(tok, auth, u, cs, a, ref, cl) ==
  IF ConnectGuard(tok, auth, ref, cl)
    THEN <<cl, ref>>
    ELSE <<Append(cl, NewClient(cs, a, u)), Len(cl) + 1>>

\* Client.deactivate(): stops the reconnect loop; a connected client stays
\* connected until the broker has acknowledged the DISCONNECT.
Deactivate(c) ==
  IF c.activation = "ACTIVE"
    THEN IF c.connected
           THEN [c EXCEPT !.activation = "DEACTIVATING"]
           ELSE [c EXCEPT !.activation = "INACTIVE"]
    ELSE c

\* The effect's else branch: stompClientRef.current.deactivate(), not awaited
EffectDeactivate(ref, cl) ==
  IF ref # 0 THEN [cl EXCEPT ![ref] = Deactivate(@)] ELSE cl

\* subscribeToRoom: subscribes on ref.current if it is connected
subscribeToRoom(ss, ref, cl, roomId, cap) ==
  IF ref # 0 /\ cl[ref].connected
    THEN ss \cup {[client |-> ref, dest |-> RoomDest(roomId), cap |-> cap]}
    ELSE ss

\* onConnect: the inbox subscription on the client itself, then
\* chats.forEach(subscribeToRoom) over the chats the closure captured.
OnConnectSubs(ss, c, ref, cl) ==
  LET inbox == [client |-> c, dest |-> InboxDest(cl[c].capUser),
                cap |-> cl[c].capActive]
      rooms == IF ref # 0 /\ cl[ref].connected
                 THEN { [client |-> ref, dest |-> RoomDest(cl[c].capChats[i]),
                         cap |-> cl[c].capActive] : i \in DOMAIN cl[c].capChats }
                 ELSE {}
  IN  ss \cup {inbox} \cup rooms

\* Bookkeeping for the properties, not program state: each sendMessage call
\* keeps the lists it found (pre, preActive) and two marks, `alone` (no
\* other event has changed chats or activeChat since the call) and
\* `aloneButEcho` (none but deliveries of the call's own echo).  An event
\* that changes chats or activeChat clears the marks of every call but its
\* own (own); a delivery of the echo of a call (echoOf) clears its `alone`.
Disturb(sq, own, echoOf) ==
  [k \in DOMAIN sq |->
     IF k \in own THEN sq[k]
     ELSE IF k \in echoOf THEN [sq[k] EXCEPT !.alone = FALSE]
     ELSE [sq[k] EXCEPT !.alone = FALSE, !.aloneButEcho = FALSE]]

\* ChatProvider after its first render and mount effect (not authenticated,
\* no client), and no makeRequest call under observation.
InitChat ==
  /\ isAuthenticated = FALSE
  /\ token = "null"
  /\ currentUser = "null"
  /\ chats = <<>>
  /\ activeChat = NoChat
  /\ isWebSocketConnected = FALSE
  /\ stompClientRef = 0
  /\ clients = <<>>
  /\ sends = <<>>
  /\ loads = [b \in BOOLEAN |-> 0]
  /\ creates = {}
  /\ subs = {}
  /\ deliveries = {}
  /\ now = 0
  /\ srvNext = 1
  /\ nLogins = 0
  /\ nLoadCalls = 0
  /\ nCreates = 0
  /\ msgLoads = <<>>

(***************************************************************************)
(* Credential storage, request headers, notifications                      *)
(***************************************************************************)

\* API_CONFIG.STORAGE_KEYS.TOKEN and .USER, and the key checkAuthStatus reads
TOKEN == "chitchat_token"
USER == "chitchat_user"
StorageKeys == {TOKEN, USER, "token"}

EmptyStorage == [k \in StorageKeys |-> "null"]

\* ApiService.login / register, after the response: the two setItem calls
StoreSession(st, u, t) == [st EXCEPT ![TOKEN] = t, ![USER] = u]

\* An ApiService.logout that leaves the stored credentials where they are.
ClearSessionKeepsToken(st) == [st EXCEPT ![USER] = "null"]

\* ApiService.logout, the finally block: the two removeItem calls
ClearSession(st) == [st EXCEPT ![TOKEN] = "null", ![USER] = "null"]

\* An Authorization header (present or not); its value is `${scheme} ${token}`
\* or, with both empty, the empty string.
NoHeader == [present |-> FALSE, scheme |-> "", token |-> ""]
Header(scheme, t) == [present |-> TRUE, scheme |-> scheme, token |-> t]

\* getHeaders / getToken: reads the token at every attempt
getHeaders(st) ==
  IF st[TOKEN] # "null" THEN Header("Bearer", st[TOKEN]) ELSE NoHeader

\* uploadFile's own headers: 'Authorization': token ? `Bearer ${token}` : ''
uploadHeaders(st) ==
  IF st[TOKEN] # "null" THEN Header("Bearer", st[TOKEN]) ELSE Header("", "")

\* One fetch() as the network sees it, with the stored token at that moment.
Attempt(via, h, st) == [via |-> via, authorization |-> h, stored |-> st[TOKEN]]

NoAttempt == [via |-> "none", authorization |-> NoHeader, stored |-> "null"]

\* The contexts handleError is called with.
Contexts == {"checkAuthStatus", "login", "register", "logout", "loadChats",
             "loadMessages", "sendMessage", "createRoom",
             "WebSocket Stomp Error"}

\* errorHandler.handleError(error, context): one showNotification
handleError(n, context) == [n EXCEPT ![context] = @ + 1]

\* AuthProvider after checkAuthStatus found no token, nothing stored, no
\* call made, no notification shown.
SessIdle ==
  /\ storage = EmptyStorage
  /\ isLoading = FALSE
  /\ calls = <<>>
  /\ notifications = [c \in Contexts |-> 0]
  /\ request = NoAttempt

(***************************************************************************)
(* ErrorHandler and the notifications it dispatches                        *)
(***************************************************************************)

\* error.errorData of an ApiError: absent (the ApiError uploadFile throws),
\* a fault body without validationErrors, or one with them.  Of a
\* ValidationError: its validationErrors, empty ("plain") or not.
ErrorDatas == {"undefined", "plain", "fields"}

\* The statuses handleApiError has a case for, and one it has none for.
ApiStatuses == {400, 401, 403, 404, 409, 413, 418, 422, 429, 500, 502, 503, 504}

Fault(name, status, errorData) ==
  [name |-> name, status |-> status, errorData |-> errorData]

\* The values handleError is called with: the three error classes of
\* ApiService, any other Error, and a value that is no Error.
Faults ==
  { Fault("ApiError", st, d) : st \in ApiStatuses, d \in ErrorDatas }
    \cup { Fault("NetworkError", 0, "undefined") }
    \cup { Fault("ValidationError", 0, d) : d \in {"plain", "fields"} }
    \cup { Fault("Error", 0, "undefined"), Fault("unknown", 0, "undefined") }

\* The context argument: a context string, or none.
ErrContexts == {"sendMessage", "undefined"}

\* const retryKey = context || 'default'
RetryKey(context) == IF context = "undefined" THEN "default" ELSE context

RetryKeys == { RetryKey(c) : c \in ErrContexts }
Callbacks == {"cb1", "cb2"}

\* An ErrorNotification: its type, title and duration, the action of its
\* button ("none" without actions) and the context its action closure
\* captured.
Notification(type, title, duration, action, context) ==
  [kind |-> "notification", type |-> type, title |-> title,
   duration |-> duration, action |-> action, context |-> context]

\* Reading a property of undefined
TypeErrorThrown == [kind |-> "throw", name |-> "TypeError"]

\* handleValidationError
handleValidationError(context) ==
  Notification("error", "Validation Error", 8000, "none", context)

\* handleApiError: the switch on error.status; every case but the default
\* reads a property of error.errorData.
handleApiError(error, context) ==
  IF error.status \notin {400, 401, 403, 404, 409, 413, 422, 429, 500,
                          502, 503, 504}
    THEN Notification("error", "API Error", 5000, "none", context)
  ELSE IF error.errorData = "undefined"
    THEN TypeErrorThrown
  ELSE CASE error.status = 400 ->
              IF error.errorData = "fields"
                THEN Notification("error", "Validation Error", 8000, "none",
                                  context)
                ELSE Notification("error", "Invalid Request", 5000, "none",
                                  context)
         [] error.status = 401 ->
              Notification("error", "Authentication Required", 5000, "login",
                           context)
         [] error.status = 403 ->
              Notification("error", "Access Denied", 5000, "none", context)
         [] error.status = 404 ->
              Notification("error", "Not Found", 5000, "none", context)
         [] error.status = 409 ->
              Notification("error", "Conflict", 5000, "reload", context)
         [] error.status = 413 ->
              Notification("error", "File Too Large", 5000, "none", context)
         [] error.status = 422 -> handleValidationError(context)
         [] error.status = 429 ->
              Notification("warning", "Rate Limit Exceeded", 5000, "none",
                           context)
         [] error.status = 500 ->
              Notification("error", "Server Error", 5000, "retryOrReload",
                           context)
         [] error.status \in {502, 503, 504} ->
              Notification("error", "Server Unavailable", 8000, "retry",
                           context)

\* handleError up to showNotification: the instanceof chain.
handleErrorResult(error, context) ==
  CASE error.name = "ApiError"        -> handleApiError(error, context)
    [] error.name = "NetworkError"    ->
         Notification("error", "Network Error", 8000, "retry", context)
    [] error.name = "ValidationError" -> handleValidationError(context)
    [] error.name = "Error"           ->
         Notification("error", "Error", 5000, "none", context)
    [] OTHER                          ->
         Notification("error", "Unknown Error", 5000, "none", context)

\* What a click did: called a callback, reloaded the page, went to /auth,
\* or nothing.
Effect(kind, callback) == [kind |-> kind, callback |-> callback]

\* The action of handleServerUnavailableError with the fallback of
\* handleInternalServerError.
ActionEffectReloads(action, context, rc) ==
  CASE action = "login"  -> Effect("redirect", "none")
    [] action = "reload" -> Effect("reload", "none")
    [] action \in {"retryOrReload", "retry"} ->
         IF rc[RetryKey(context)] # "none"
           THEN Effect("callback", rc[RetryKey(context)])
           ELSE Effect("reload", "none")

\* The action closures of the notifications, run against the registry rc.
ActionEffect(action, context, rc) ==
  CASE action = "login"  -> Effect("redirect", "none")
    [] action = "reload" -> Effect("reload", "none")
    [] action = "retryOrReload" ->
         IF rc[RetryKey(context)] # "none"
           THEN Effect("callback", rc[RetryKey(context)])
           ELSE Effect("reload", "none")
    [] action = "retry" ->
         IF rc[RetryKey(context)] # "none"
           THEN Effect("callback", rc[RetryKey(context)])
           ELSE Effect("none", "none")

NoCall == [error |-> Fault("none", 0, "undefined"), context |-> "undefined",
           result |-> [kind |-> "none"]]

\* ErrorHandler as constructed, NotificationProvider as mounted.
ErrIdle ==
  /\ retryCallbacks = [k \in RetryKeys |-> "none"]
  /\ shownNotifications = <<>>
  /\ handled = NoCall
  /\ triggers = <<>>
  /\ nAuthErrors = 0

\* What no action of ErrorHandler or NotificationProvider touches.
errFrame == <<reqVars, loadVars, sessVars, chatVars, nAuthErrors>>

\* A component calls errorHandler.handleError(error, context): the
\* notification is built and given to addNotification, unless building it
\* throws.
HandleError(error, context) ==
  /\ Len(shownNotifications) < MaxShown
  /\ LET r == handleErrorResult(error, context)
     IN  /\ handled' = [error |-> error, context |-> context, result |-> r]
         /\ shownNotifications' = IF r.kind = "notification"
                                    THEN Append(shownNotifications, r)
                                    ELSE shownNotifications
  /\ UNCHANGED <<errFrame, retryCallbacks, triggers>>

\* registerRetryCallback(context, callback)
RegisterRetryCallback(key, callback) ==
  /\ retryCallbacks' = [retryCallbacks EXCEPT ![key] = callback]
  /\ UNCHANGED <<errFrame, shownNotifications, handled, triggers>>

\* unregisterRetryCallback(context)
UnregisterRetryCallback(key) ==
  /\ retryCallbacks' = [retryCallbacks EXCEPT ![key] = "none"]
  /\ UNCHANGED <<errFrame, shownNotifications, handled, triggers>>

\* The user clicks the action button of the i-th notification: the action
\* runs (the notification then starts to close).  A reload or a redirect
\* loads the page anew: the registry and the notifications are gone.
TriggerAction(i) ==
  /\ Len(triggers) < MaxTriggers
  /\ shownNotifications[i].action # "none"
  /\ LET n == shownNotifications[i]
         e == ActionEffect(n.action, n.context, retryCallbacks)
     IN  /\ triggers' = Append(triggers, [notification |-> n, effect |-> e])
         /\ IF e.kind \in {"reload", "redirect"}
              THEN /\ retryCallbacks' = [k \in RetryKeys |-> "none"]
                   /\ shownNotifications' = <<>>
              ELSE UNCHANGED <<retryCallbacks, shownNotifications>>
  /\ UNCHANGED <<errFrame, handled>>

\* A notification's timer (duration) or its close button removes it.
Dismiss(i) ==
  /\ shownNotifications' = SubSeq(shownNotifications, 1, i - 1)
                             \o SubSeq(shownNotifications, i + 1,
                                       Len(shownNotifications))
  /\ UNCHANGED <<errFrame, retryCallbacks, handled, triggers>>

NextErr ==
  \/ \E error \in Faults, context \in ErrContexts : HandleError(error, context)
  \/ \E key \in RetryKeys, cb \in Callbacks : RegisterRetryCallback(key, cb)
  \/ \E key \in RetryKeys : UnregisterRetryCallback(key)
  \/ \E i \in DOMAIN shownNotifications : TriggerAction(i)
  \/ \E i \in DOMAIN shownNotifications : Dismiss(i)

(***************************************************************************)
(* ChatProvider: actions                                                   *)
(***************************************************************************)

TokenOf(u) == IF u = "u1" THEN "t1" ELSE "t2"

\* AuthProvider commits a successful login/register/restore (setUser,
\* setToken, setIsAuthenticated(true)); the effect on [isAuthenticated]
\* then calls loadChats() and connectWebSocket() with that render's values.
Login(u) ==
  /\ ~isAuthenticated
  /\ nLogins < MaxLogins
  /\ nLogins' = nLogins + 1
  /\ isAuthenticated' = TRUE
  /\ token' = TokenOf(u)
  /\ currentUser' = u
  /\ loads' = [loads EXCEPT ![activeChat = NoChat] = @ + 1]
  /\ LET r == connectWebSocket(TokenOf(u), TRUE, u, chats, activeChat,
                               stompClientRef, clients)
     IN  /\ clients' = r[1]
         /\ stompClientRef' = r[2]
  /\ storage' = StoreSession(storage, u, TokenOf(u))
  /\ UNCHANGED <<reqVars, loadVars, errVars, isLoading, calls, notifications, request, chats,
                 activeChat, isWebSocketConnected, sends, creates,
                 subs, deliveries, now, srvNext, nLoadCalls, nCreates>>

\* AuthProvider.logout commits (setUser(null), setToken(null),
\* setIsAuthenticated(false)); the effect's else branch deactivates.
Logout ==
  /\ isAuthenticated
  /\ isAuthenticated' = FALSE
  /\ token' = "null"
  /\ currentUser' = "null"
  /\ clients' = EffectDeactivate(stompClientRef, clients)
  /\ storage' = ClearSession(storage)
  /\ UNCHANGED <<reqVars, loadVars, errVars, isLoading, calls, notifications, request, chats,
                 activeChat, isWebSocketConnected, stompClientRef,
                 sends, loads, creates, subs, deliveries, now, srvNext,
                 nLogins, nLoadCalls, nCreates>>

\* The broker accepts an activated client's (re)connect: onConnect runs.
WsConnected(c) ==
  /\ clients[c].activation = "ACTIVE"
  /\ ~clients[c].connected
  /\ clients' = [clients EXCEPT ![c].connected = TRUE,
                                ![c].everConnected = TRUE]
  /\ isWebSocketConnected' = TRUE
  /\ subs' = OnConnectSubs(subs, c, stompClientRef, clients')
  /\ UNCHANGED <<reqVars, loadVars, errVars, sessVars, authVars, chats, activeChat, stompClientRef, sends, loads,
                 creates, deliveries, now, srvNext, nLogins, nLoadCalls,
                 nCreates>>

DropClient(c) ==
  /\ subs' = { x \in subs : x.client # c }
  /\ deliveries' = { d \in deliveries : d.sub.client # c }
  /\ isWebSocketConnected' = FALSE

\* The connection of an activated client is lost: onWebSocketClose runs and
\* the client goes on to reconnect after reconnectDelay.
WsClose(c) ==
  /\ clients[c].activation = "ACTIVE"
  /\ clients[c].connected
  /\ clients' = [clients EXCEPT ![c].connected = FALSE,
                                ![c].roomsAtClose = RoomIds(chats)]
  /\ DropClient(c)
  /\ UNCHANGED <<reqVars, loadVars, errVars, sessVars, authVars, chats, activeChat, stompClientRef, sends,
                 loads, creates, now, srvNext, nLogins, nLoadCalls, nCreates>>

\* A deactivating client's socket closes: the deactivation is complete.
WsDeactivated(c) ==
  /\ clients[c].activation = "DEACTIVATING"
  /\ clients' = [clients EXCEPT ![c].connected = FALSE,
                                ![c].activation = "INACTIVE"]
  /\ DropClient(c)
  /\ UNCHANGED <<reqVars, loadVars, errVars, sessVars, authVars, chats, activeChat, stompClientRef, sends,
                 loads, creates, now, srvNext, nLogins, nLoadCalls, nCreates>>

\* The broker sends an ERROR frame to an activated client: onStompError
\* hands it to handleError; the client's activation is not touched.
WsStompError(c) ==
  /\ clients[c].activation = "ACTIVE"
  /\ notifications["WebSocket Stomp Error"] < MaxErrorFrames
  /\ notifications' = handleError(notifications, "WebSocket Stomp Error")
  /\ UNCHANGED <<reqVars, loadVars, errVars, storage, isLoading, calls, request, authVars, wsVars,
                 chats, activeChat, sends, loads, creates, now, srvNext,
                 nLogins, nLoadCalls, nCreates>>

\* The UI calls loadChats(); it captures activeChat of the current render.
LoadChats ==
  /\ isAuthenticated
  /\ nLoadCalls < MaxLoadCalls
  /\ nLoadCalls' = nLoadCalls + 1
  /\ loads' = [loads EXCEPT ![activeChat = NoChat] = @ + 1]
  /\ UNCHANGED <<reqVars, loadVars, errVars, sessVars, authVars, wsVars, chats, activeChat, sends, creates, now,
                 srvNext, nLogins, nCreates>>

\* getRooms() resolves with the list rl for a call that captured
\* (activeChat = null) = b.
LoadChatsOk(b, rl) ==
  /\ loads[b] > 0
  /\ loads' = [loads EXCEPT ![b] = @ - 1]
  /\ chats' = [i \in DOMAIN rl |-> mapChatRoomResponseToChat(rl[i])]
  /\ activeChat' = IF Len(rl) > 0 /\ b THEN chats'[1] ELSE activeChat
  /\ sends' = Disturb(sends, {}, {})
  /\ UNCHANGED <<reqVars, loadVars, errVars, sessVars, authVars, wsVars, creates, now, srvNext, nLogins,
                 nLoadCalls, nCreates>>

\* getRooms() rejects: handleError, setChats([]).
LoadChatsFail(b) ==
  /\ loads[b] > 0
  /\ loads' = [loads EXCEPT ![b] = @ - 1]
  /\ chats' = <<>>
  /\ notifications' = handleError(notifications, "loadChats")
  /\ sends' = Disturb(sends, {}, {})
  /\ UNCHANGED <<reqVars, loadVars, errVars, storage, isLoading, calls, request, authVars, wsVars, activeChat, creates, now, srvNext,
                 nLogins, nLoadCalls, nCreates>>

\* sendMessage up to its await: the optimistic updates.
SendMessage(roomId) ==
  /\ isAuthenticated
  /\ currentUser # "null"
  /\ Len(sends) < MaxSends
  /\ LET m == optimisticMessage(roomId, now)
     IN  /\ chats' = OptimisticToChats(chats, m)
         /\ activeChat' = OptimisticToActive(activeChat, m)
         /\ sends' = Append(Disturb(sends, {}, {}),
                       [roomId |-> roomId, optId |-> m.id, pc |-> "awaiting",
                        senderId |-> currentUser, srvId |-> 0,
                        pre |-> RoomMessages(chats, roomId),
                        wasActive |-> (ActiveId(activeChat) = roomId),
                        preActive |-> activeChat.messages,
                        alone |-> TRUE, aloneButEcho |-> TRUE])
  /\ UNCHANGED <<reqVars, loadVars, errVars, sessVars, authVars, wsVars, loads, creates, now, srvNext, nLogins,
                 nLoadCalls, nCreates>>

\* Destinations the server may publish a room's NEW_MESSAGE to.
PublishChoices(roomId, u) ==
  { {RoomDest(roomId)}, {InboxDest(u)}, {RoomDest(roomId), InboxDest(u)} }

Frames(ss, dests, m) ==
  { [sub |-> x, msg |-> m] : x \in { y \in ss : y.dest \in dests } }

\* The server stores the message of send k and publishes its NEW_MESSAGE.
ServerPersist(k, dests, ts) ==
  /\ sends[k].pc = "awaiting"
  /\ srvNext <= MaxSrvMsgs
  /\ dests \in PublishChoices(sends[k].roomId, sends[k].senderId)
  /\ srvNext' = srvNext + 1
  /\ sends' = [sends EXCEPT ![k].pc = "persisted", ![k].srvId = srvNext]
  /\ deliveries' = deliveries \cup
       Frames(subs, dests,
              mapWebSocketMessageToMessage(srvNext, sends[k].roomId, ts))
  /\ UNCHANGED <<reqVars, loadVars, errVars, sessVars, authVars, chats, activeChat, isWebSocketConnected,
                 stompClientRef, clients, subs, loads, creates, now, nLogins,
                 nLoadCalls, nCreates>>

\* Another user's message in a room reaches at least one subscription.
ServerForeign(roomId, u, dests, ts) ==
  /\ srvNext <= MaxSrvMsgs
  /\ dests \in PublishChoices(roomId, u)
  /\ LET fr == Frames(subs, dests,
                      mapWebSocketMessageToMessage(srvNext, roomId, ts))
     IN  /\ fr # {}
         /\ deliveries' = deliveries \cup fr
  /\ srvNext' = srvNext + 1
  /\ UNCHANGED <<reqVars, loadVars, errVars, sessVars, authVars, chats, activeChat, isWebSocketConnected,
                 stompClientRef, clients, subs, sends, loads, creates, now,
                 nLogins, nLoadCalls, nCreates>>

\* A frame reaches its subscription's callback: handleWebSocketMessage.
Deliver(d) ==
  /\ d \in deliveries
  /\ deliveries' = deliveries \ {d}
  /\ chats' = PushToChats(chats, d.msg)
  /\ activeChat' = PushToActive(activeChat, d.sub.cap, d.msg)
  /\ sends' = Disturb(sends, {}, { k \in DOMAIN sends :
                                     <<"srv", sends[k].srvId>> = d.msg.id })
  /\ UNCHANGED <<reqVars, loadVars, errVars, sessVars, authVars, isWebSocketConnected, stompClientRef, clients,
                 subs, loads, creates, now, srvNext, nLogins, nLoadCalls,
                 nCreates>>

\* apiService.sendMessage resolves: sendMessage returns, nothing is updated.
SendOk(k) ==
  /\ sends[k].pc = "persisted"
  /\ sends' = [sends EXCEPT ![k].pc = "ok"]
  /\ UNCHANGED <<reqVars, loadVars, errVars, sessVars, authVars, wsVars, chats, activeChat, loads, creates, now,
                 srvNext, nLogins, nLoadCalls, nCreates>>

\* apiService.sendMessage rejects (the request may or may not have reached
\* the server): handleError, then the revert.
SendFail(k) ==
  /\ sends[k].pc \in {"awaiting", "persisted"}
  /\ chats' = RevertChats(chats, sends[k].roomId, sends[k].optId)
  /\ activeChat' = RevertActive(activeChat, sends[k].roomId, sends[k].optId)
  /\ sends' = [Disturb(sends, {k}, {}) EXCEPT ![k].pc = "failed"]
  /\ notifications' = handleError(notifications, "sendMessage")
  /\ UNCHANGED <<reqVars, loadVars, errVars, storage, isLoading, calls, request, authVars, wsVars, loads, creates, now, srvNext, nLogins,
                 nLoadCalls, nCreates>>

\* The UI calls createRoom(); the server will give the new room an id the
\* client does not know at this moment.
CreateRoom(roomId) ==
  /\ isAuthenticated
  /\ nCreates < MaxCreates
  /\ roomId \notin RoomIds(chats)
  /\ nCreates' = nCreates + 1
  /\ creates' = creates \cup {[roomId |-> roomId, cap |-> ActiveId(activeChat)]}
  /\ UNCHANGED <<reqVars, loadVars, errVars, sessVars, authVars, wsVars, chats, activeChat, sends, loads, now,
                 srvNext, nLogins, nLoadCalls>>

\* apiService.createRoom resolves: append the room, subscribeToRoom.
CreateRoomOk(c) ==
  /\ c \in creates
  /\ creates' = creates \ {c}
  /\ chats' = Append(chats, mapChatRoomResponseToChat(c.roomId))
  /\ subs' = subscribeToRoom(subs, stompClientRef, clients, c.roomId, c.cap)
  /\ UNCHANGED <<reqVars, loadVars, errVars, sessVars, authVars, activeChat, isWebSocketConnected, stompClientRef,
                 clients, deliveries, sends, loads, now, srvNext, nLogins,
                 nLoadCalls, nCreates>>

\* apiService.createRoom rejects: handleError only.
CreateRoomFail(c) ==
  /\ c \in creates
  /\ creates' = creates \ {c}
  /\ notifications' = handleError(notifications, "createRoom")
  /\ UNCHANGED <<reqVars, loadVars, errVars, storage, isLoading, calls, request, authVars, wsVars, chats, activeChat, sends, loads, now,
                 srvNext, nLogins, nLoadCalls, nCreates>>

\* A millisecond passes.
Tick ==
  /\ now < MaxClock
  /\ now' = now + 1
  /\ UNCHANGED <<reqVars, loadVars, errVars, sessVars, authVars, wsVars, chats, activeChat, sends, loads, creates,
                 srvNext, nLogins, nLoadCalls, nCreates>>

\* Timestamps the server may stamp a message with (its clock is its own).
ServerTimes == {0, now}

\* The UI calls loadMessages(roomId) from the context value.
LoadMessages(roomId) ==
  /\ isAuthenticated
  /\ Len(msgLoads) < MaxMsgLoads
  /\ msgLoads' = Append(msgLoads, MsgLoad(roomId, "ui"))
  /\ UNCHANGED <<reqVars, sessVars, errVars, chatVars>>

\* The UI calls setActiveChat(chat), which is handleSetActiveChat, with a
\* room of the rendered list or with null.
SetActiveChat(chat) ==
  /\ isAuthenticated
  /\ NeedsLoad(chat) => Len(msgLoads) < MaxMsgLoads
  /\ activeChat' = chat
  /\ msgLoads' = IF NeedsLoad(chat)
                   THEN Append(msgLoads, MsgLoad(chat.id, "setActiveChat"))
                   ELSE msgLoads
  /\ UNCHANGED <<reqVars, sessVars, errVars, authVars, wsVars, chats, sends,
                 loads, creates, now, srvNext, nLogins, nLoadCalls, nCreates>>

\* getRoomMessages() resolves with the list `body`: the setChats updater.
LoadMessagesOk(k, body) ==
  /\ msgLoads[k].pc = "awaiting"
  /\ msgLoads' = [msgLoads EXCEPT ![k].pc = "ok", ![k].body = body]
  /\ chats' = LoadMessagesToChats(chats, msgLoads[k].roomId, body)
  /\ sends' = Disturb(sends, {}, {})
  /\ UNCHANGED <<reqVars, sessVars, errVars, authVars, wsVars, activeChat,
                 loads, creates, now, srvNext, nLogins, nLoadCalls, nCreates>>

\* getRoomMessages() rejects: handleError only.
LoadMessagesFail(k) ==
  /\ msgLoads[k].pc = "awaiting"
  /\ msgLoads' = [msgLoads EXCEPT ![k].pc = "failed"]
  /\ notifications' = handleError(notifications, "loadMessages")
  /\ UNCHANGED <<reqVars, errVars, storage, isLoading, calls, request,
                 chatVars>>

(***************************************************************************)
(* AuthProvider and ApiService's session methods: actions                  *)
(***************************************************************************)

UserOf(t) == IF t = "t1" THEN "u1" ELSE "u2"

\* What localStorage can hold when the application starts: nothing, or the
\* pair an earlier login/register stored; and, under the key 'token' that
\* checkAuthStatus reads, nothing or a token left there by something else
\* (no code of this client writes that key).
StartStorages ==
  { [k \in StorageKeys |->
       CASE k = TOKEN -> IF u = "null" THEN "null" ELSE TokenOf(u)
         [] k = USER -> u
         [] OTHER -> l] : u \in Users \cup {"null"}, l \in {"null", "t1"} }

\* A call of AuthProvider or ApiService and where it stands.  `retries` is
\* the budget of the makeRequest frame in flight.  For checkAuthStatus,
\* `bearer` is the token its latest attempt carried, storedToken and
\* persisted what localStorage held under 'token' and under TOKEN when it
\* began, fetched whether it called getProfile.  serverOk is the server's
\* answer to the call's request, retried the retries the call has made.
Call(op, u, pc, st) ==
  [op |-> op, user |-> u, pc |-> pc, retries |-> RETRY_ATTEMPTS,
   bearer |-> IF op = "restore" THEN getHeaders(st).token ELSE "",
   storedToken |-> IF op = "restore" THEN st["token"] ELSE "null",
   persisted |-> IF op = "restore" THEN st[TOKEN] ELSE "null",
   fetched |-> FALSE, serverOk |-> TRUE, retried |-> 0]

SessionOps == {"login", "register", "logout"}

NumCalls(ops) == Cardinality({ k \in DOMAIN calls : calls[k].op \in ops })

\* Retries made so far by all calls.
NumRetried ==
  LET sum[k \in 0..Len(calls)] ==
        IF k = 0 THEN 0 ELSE sum[k - 1] + calls[k].retried
  IN  sum[Len(calls)]

\* ChatProvider's effect on [isAuthenticated], run after a commit of
\* AuthProvider that leaves isAuthenticated = auth, token = tok, user = u.
AuthEffect(auth, tok, u) ==
  IF ~isAuthenticated /\ auth
    THEN /\ loads' = [loads EXCEPT ![activeChat = NoChat] = @ + 1]
         /\ LET r == connectWebSocket(tok, TRUE, u, chats, activeChat,
                                      stompClientRef, clients)
            IN  /\ clients' = r[1]
                /\ stompClientRef' = r[2]
    ELSE IF isAuthenticated /\ ~auth
           THEN /\ clients' = EffectDeactivate(stompClientRef, clients)
                /\ UNCHANGED <<loads, stompClientRef>>
           ELSE UNCHANGED <<loads, clients, stompClientRef>>

\* What no action of AuthProvider or ApiService touches.
sessFrame == <<reqVars, loadVars, errVars, chats, activeChat, isWebSocketConnected, sends,
               creates, subs, deliveries, now, srvNext, nLogins, nLoadCalls,
               nCreates>>

\* AuthProvider's mount effect: checkAuthStatus up to its first await, or to
\* its end when localStorage.getItem('token') is null.
CheckAuthStatus ==
  /\ calls = <<>>
  /\ IF storage["token"] # "null"
       THEN /\ calls' = <<[Call("restore", "null", "awaiting", storage)
                             EXCEPT !.fetched = TRUE]>>
            /\ request' = Attempt("makeRequest", getHeaders(storage), storage)
            /\ isLoading' = TRUE
       ELSE /\ calls' = <<Call("restore", "null", "returned", storage)>>
            /\ isLoading' = FALSE
            /\ UNCHANGED request
  /\ UNCHANGED <<sessFrame, authVars, storage, notifications, loads, clients,
                 stompClientRef>>

\* makeRequest's catch block retries: fetch rejected, delay, then the next
\* frame's fetch with headers computed anew.
Retry(k) ==
  /\ calls[k].pc \in {"awaiting", "cleanup"}
  /\ calls[k].op # "uploadFile"
  /\ calls[k].retries > 0
  /\ NumRetried < MaxRetries
  /\ calls' = [calls EXCEPT ![k].retries = @ - 1, ![k].retried = @ + 1,
                            ![k].bearer = IF calls[k].op = "restore"
                                            THEN getHeaders(storage).token
                                            ELSE ""]
  /\ request' = Attempt("makeRequest", getHeaders(storage), storage)
  /\ UNCHANGED <<sessFrame, authVars, storage, isLoading, notifications, loads,
                 clients, stompClientRef>>

\* checkAuthStatus: getProfile() resolves (the server knows the token the
\* request carried): setUser, setToken(storedToken), setIsAuthenticated(true).
RestoreOk(k) ==
  /\ calls[k].op = "restore"
  /\ calls[k].pc = "awaiting"
  /\ calls[k].bearer # ""
  /\ currentUser' = UserOf(calls[k].bearer)
  /\ token' = calls[k].storedToken
  /\ isAuthenticated' = TRUE
  /\ isLoading' = FALSE
  /\ calls' = [calls EXCEPT ![k].pc = "returned"]
  /\ AuthEffect(TRUE, calls[k].storedToken, UserOf(calls[k].bearer))
  /\ UNCHANGED <<sessFrame, storage, notifications, request>>

\* checkAuthStatus: getProfile() rejects: handleError, then apiService.logout()
\* issues its request.
RestoreFail(k) ==
  /\ calls[k].op = "restore"
  /\ calls[k].pc = "awaiting"
  /\ notifications' = handleError(notifications, "checkAuthStatus")
  /\ calls' = [calls EXCEPT ![k].pc = "cleanup", ![k].serverOk = FALSE,
                            ![k].retries = RETRY_ATTEMPTS,
                            ![k].bearer = getHeaders(storage).token]
  /\ request' = Attempt("makeRequest", getHeaders(storage), storage)
  /\ UNCHANGED <<sessFrame, authVars, storage, isLoading, loads, clients,
                 stompClientRef>>

\* checkAuthStatus: apiService.logout() is over (its request answered or
\* failed, its finally block run); the rest of the catch and the finally.
RestoreCleanupDone(k) ==
  /\ calls[k].op = "restore"
  /\ calls[k].pc = "cleanup"
  /\ storage' = ClearSession(storage)
  /\ isAuthenticated' = FALSE
  /\ currentUser' = "null"
  /\ token' = "null"
  /\ isLoading' = FALSE
  /\ calls' = [calls EXCEPT ![k].pc = "returned"]
  /\ AuthEffect(FALSE, "null", "null")
  /\ UNCHANGED <<sessFrame, notifications, request>>

\* AuthProvider.login / register up to the await: the request is issued.
LoginCall(op, u) ==
  /\ calls # <<>>
  /\ NumCalls(SessionOps) < MaxAuthCalls
  /\ isLoading' = TRUE
  /\ calls' = Append(calls, Call(op, u, "awaiting", storage))
  /\ request' = Attempt("makeRequest", getHeaders(storage), storage)
  /\ UNCHANGED <<sessFrame, authVars, storage, notifications, loads, clients,
                 stompClientRef>>

\* apiService.login / register resolves: the token and user are stored, then
\* setUser, setToken, setIsAuthenticated(true), and the finally block.
LoginOk(k) ==
  /\ calls[k].op \in {"login", "register"}
  /\ calls[k].pc = "awaiting"
  /\ storage' = StoreSession(storage, calls[k].user, TokenOf(calls[k].user))
  /\ currentUser' = calls[k].user
  /\ token' = TokenOf(calls[k].user)
  /\ isAuthenticated' = TRUE
  /\ isLoading' = FALSE
  /\ calls' = [calls EXCEPT ![k].pc = "returned"]
  /\ AuthEffect(TRUE, TokenOf(calls[k].user), calls[k].user)
  /\ UNCHANGED <<sessFrame, notifications, request>>

\* A catch block that reports the fault and does not throw it again.
LoginCatchSwallows(c) == [c EXCEPT !.pc = "returned", !.serverOk = FALSE]

\* login / register, the catch block: handleError(error, op); throw error
LoginCatch(c) == [c EXCEPT !.pc = "thrown", !.serverOk = FALSE]

\* apiService.login / register rejects: the catch and the finally block.
LoginFail(k) ==
  /\ calls[k].op \in {"login", "register"}
  /\ calls[k].pc = "awaiting"
  /\ notifications' = handleError(notifications, calls[k].op)
  /\ calls' = [calls EXCEPT ![k] = LoginCatch(@)]
  /\ isLoading' = FALSE
  /\ UNCHANGED <<sessFrame, authVars, storage, request, loads, clients,
                 stompClientRef>>

\* AuthProvider.logout up to the await: apiService.logout() issues its request.
LogoutCall ==
  /\ calls # <<>>
  /\ NumCalls(SessionOps) < MaxAuthCalls
  /\ isLoading' = TRUE
  /\ calls' = Append(calls, Call("logout", "null", "awaiting", storage))
  /\ request' = Attempt("makeRequest", getHeaders(storage), storage)
  /\ UNCHANGED <<sessFrame, authVars, storage, notifications, loads, clients,
                 stompClientRef>>

\* apiService.logout() is over: its request answered (ok) or failed (caught,
\* console.warn), its finally block run; then AuthProvider.logout's finally.
LogoutDone(k, ok) ==
  /\ calls[k].op = "logout"
  /\ calls[k].pc = "awaiting"
  /\ storage' = ClearSession(storage)
  /\ isAuthenticated' = FALSE
  /\ currentUser' = "null"
  /\ token' = "null"
  /\ isLoading' = FALSE
  /\ calls' = [calls EXCEPT ![k].pc = "returned", ![k].serverOk = ok]
  /\ AuthEffect(FALSE, "null", "null")
  /\ UNCHANGED <<sessFrame, notifications, request>>

\* Any other ApiService method built on makeRequest (getProfile, getRooms,
\* ...) is called: its first fetch.
ApiCall ==
  /\ calls # <<>>
  /\ NumCalls({"api", "uploadFile"}) < MaxApiCalls
  /\ calls' = Append(calls, Call("api", "null", "awaiting", storage))
  /\ request' = Attempt("makeRequest", getHeaders(storage), storage)
  /\ UNCHANGED <<sessFrame, authVars, storage, isLoading, notifications, loads,
                 clients, stompClientRef>>

\* ApiService.uploadFile is called: its one fetch, with its own headers.
UploadFile ==
  /\ calls # <<>>
  /\ NumCalls({"api", "uploadFile"}) < MaxApiCalls
  /\ calls' = Append(calls, Call("uploadFile", "null", "awaiting", storage))
  /\ request' = Attempt("uploadFile", uploadHeaders(storage), storage)
  /\ UNCHANGED <<sessFrame, authVars, storage, isLoading, notifications, loads,
                 clients, stompClientRef>>

\* Such a call returns or throws to its caller.
CallDone(k, ok) ==
  /\ calls[k].op \in {"api", "uploadFile"}
  /\ calls[k].pc = "awaiting"
  /\ calls' = [calls EXCEPT ![k].pc = IF ok THEN "returned" ELSE "thrown",
                            ![k].serverOk = ok]
  /\ UNCHANGED <<sessFrame, authVars, storage, isLoading, notifications,
                 request, loads, clients, stompClientRef>>

\* A component calls errorHandler.handleAuthenticationError(): it removes
\* the keys 'token' and 'refreshToken' (nothing writes the latter, it is not
\* kept here) and assigns window.location.href, which loads the page anew:
\* every provider is constructed again, AuthProvider's mount effect is
\* about to run, and the calls, clients and subscriptions of the page that
\* is left are gone.
HandleAuthenticationError ==
  /\ nAuthErrors < MaxAuthErrors
  /\ nAuthErrors' = nAuthErrors + 1
  /\ storage' = [storage EXCEPT !["token"] = "null"]
  /\ isAuthenticated' = FALSE
  /\ token' = "null"
  /\ currentUser' = "null"
  /\ isLoading' = TRUE
  /\ calls' = <<>>
  /\ chats' = <<>>
  /\ activeChat' = NoChat
  /\ isWebSocketConnected' = FALSE
  /\ stompClientRef' = 0
  /\ clients' = <<>>
  /\ subs' = {}
  /\ deliveries' = {}
  /\ sends' = <<>>
  /\ loads' = [b \in BOOLEAN |-> 0]
  /\ creates' = {}
  /\ msgLoads' = <<>>
  /\ retryCallbacks' = [k \in RetryKeys |-> "none"]
  /\ shownNotifications' = <<>>
  /\ UNCHANGED <<reqVars, notifications, request, handled, triggers, now,
                 srvNext, nLogins, nLoadCalls, nCreates>>

\* The session: restore at startup, then login, register and logout, called
\* at any time and answered in any order.
NextAuth ==
  \/ CheckAuthStatus
  \/ \E k \in DOMAIN calls : Retry(k)
  \/ \E k \in DOMAIN calls : RestoreOk(k)
  \/ \E k \in DOMAIN calls : RestoreFail(k)
  \/ \E k \in DOMAIN calls : RestoreCleanupDone(k)
  \/ \E op \in {"login", "register"}, u \in Users : LoginCall(op, u)
  \/ \E k \in DOMAIN calls : LoginOk(k)
  \/ \E k \in DOMAIN calls : LoginFail(k)
  \/ LogoutCall
  \/ \E k \in DOMAIN calls, ok \in BOOLEAN : LogoutDone(k, ok)

\* The session and every request ApiService sends.
NextHdr ==
  \/ CheckAuthStatus
  \/ \E k \in DOMAIN calls : Retry(k)
  \/ \E k \in DOMAIN calls : RestoreOk(k)
  \/ \E k \in DOMAIN calls : RestoreFail(k)
  \/ \E k \in DOMAIN calls : RestoreCleanupDone(k)
  \/ \E op \in {"login", "register"}, u \in Users : LoginCall(op, u)
  \/ \E k \in DOMAIN calls : LoginOk(k)
  \/ \E k \in DOMAIN calls : LoginFail(k)
  \/ LogoutCall
  \/ \E k \in DOMAIN calls, ok \in BOOLEAN : LogoutDone(k, ok)
  \/ ApiCall
  \/ UploadFile
  \/ \E k \in DOMAIN calls, ok \in BOOLEAN : CallDone(k, ok)

\* The session and the realtime channel: login/logout, the STOMP client's
\* life, and the calls that change the room list.
NextWs ==
  \/ \E u \in Users : Login(u)
  \/ Logout
  \/ \E c \in DOMAIN clients : WsConnected(c)
  \/ \E c \in DOMAIN clients : WsClose(c)
  \/ \E c \in DOMAIN clients : WsDeactivated(c)
  \/ LoadChats
  \/ \E b \in BOOLEAN, rl \in RoomLists : LoadChatsOk(b, rl)
  \/ \E b \in BOOLEAN : LoadChatsFail(b)
  \/ \E r \in Rooms : CreateRoom(r)
  \/ \E c \in creates : CreateRoomOk(c)
  \/ \E c \in creates : CreateRoomFail(c)

\* The channel alone: what builds, connects, loses and deactivates a client
\* (the handlers of createRoom and the UI's loadChats touch no client).
NextConn ==
  \/ \E u \in Users : Login(u)
  \/ Logout
  \/ \E c \in DOMAIN clients : WsConnected(c)
  \/ \E c \in DOMAIN clients : WsClose(c)
  \/ \E c \in DOMAIN clients : WsDeactivated(c)
  \/ \E b \in BOOLEAN, rl \in RoomLists : LoadChatsOk(b, rl)
  \/ \E b \in BOOLEAN : LoadChatsFail(b)

\* The channel with the broker's ERROR frames.
NextLive ==
  \/ \E u \in Users : Login(u)
  \/ Logout
  \/ \E c \in DOMAIN clients : WsConnected(c)
  \/ \E c \in DOMAIN clients : WsClose(c)
  \/ \E c \in DOMAIN clients : WsDeactivated(c)
  \/ \E c \in DOMAIN clients : WsStompError(c)
  \/ \E b \in BOOLEAN, rl \in RoomLists : LoadChatsOk(b, rl)
  \/ \E b \in BOOLEAN : LoadChatsFail(b)

\* Messages within one session: optimistic send, its persist and echo,
\* other users' messages, push delivery, rollback.
NextMsg ==
  \/ \E u \in Users : Login(u)
  \/ \E c \in DOMAIN clients : WsConnected(c)
  \/ \E b \in BOOLEAN, rl \in RoomLists : LoadChatsOk(b, rl)
  \/ \E b \in BOOLEAN : LoadChatsFail(b)
  \/ \E r \in RoomIds(chats) : SendMessage(r)
  \/ \E k \in DOMAIN sends, ts \in ServerTimes :
       \E dests \in PublishChoices(sends[k].roomId, sends[k].senderId) :
         ServerPersist(k, dests, ts)
  \/ \E r \in Rooms, ts \in ServerTimes :
       \E dests \in PublishChoices(r, currentUser) :
         ServerForeign(r, currentUser, dests, ts)
  \/ \E d \in deliveries : Deliver(d)
  \/ \E k \in DOMAIN sends : SendOk(k)
  \/ \E k \in DOMAIN sends : SendFail(k)
  \/ Tick

\* The rooms' message lists: the room list, activation, and loadMessages
\* called by activation or by the UI.
NextLoad ==
  \/ \E u \in Users : Login(u)
  \/ \E b \in BOOLEAN, rl \in RoomLists : LoadChatsOk(b, rl)
  \/ \E b \in BOOLEAN : LoadChatsFail(b)
  \/ \E r \in RoomIds(chats) : LoadMessages(r)
  \/ \E i \in DOMAIN chats : SetActiveChat(chats[i])
  \/ SetActiveChat(NoChat)
  \/ \E k \in DOMAIN msgLoads :
       \E body \in MessageLists(msgLoads[k].roomId) : LoadMessagesOk(k, body)
  \/ \E k \in DOMAIN msgLoads : LoadMessagesFail(k)

\* Activation with messages that did not come from a fetch: the optimistic
\* message of a send.
NextActivate ==
  \/ \E u \in Users : Login(u)
  \/ \E b \in BOOLEAN, rl \in RoomLists : LoadChatsOk(b, rl)
  \/ \E i \in DOMAIN chats : SetActiveChat(chats[i])
  \/ SetActiveChat(NoChat)
  \/ \E k \in DOMAIN msgLoads :
       \E body \in MessageLists(msgLoads[k].roomId) : LoadMessagesOk(k, body)
  \/ \E r \in RoomIds(chats) : SendMessage(r)

\* The makeRequest call of SpecReq, not running.
ReqIdle ==
  /\ script = [i \in 1..ScriptLen |-> [kind |-> "reject"]]
  /\ reqPc = "done"
  /\ retries = 0
  /\ attempts = 0
  /\ result = NoResult

Init == InitChat /\ ReqIdle /\ SessIdle /\ ErrIdle

SpecWs == Init /\ [][NextWs]_vars

SpecConn == Init /\ [][NextConn]_vars

SpecMsg == Init /\ [][NextMsg]_vars

SpecLoad == Init /\ [][NextLoad]_vars

SpecActivate == Init /\ [][NextActivate]_vars

SpecErr == Init /\ [][NextErr]_vars

\* The server accepts connections: an activated client that is not connected
\* (its reconnectDelay timer is running) does get connected.
ServerAccepts ==
  \A c \in 1..MaxLogins : WF_vars(c \in DOMAIN clients /\ WsConnected(c))

\* AuthProvider before its mount effect, with what earlier runs left in
\* localStorage; ChatProvider as constructed.
InitAuth ==
  /\ InitChat
  /\ ReqIdle
  /\ storage \in StartStorages
  /\ isLoading = TRUE
  /\ calls = <<>>
  /\ notifications = [c \in Contexts |-> 0]
  /\ request = NoAttempt
  /\ ErrIdle

SpecAuth == InitAuth /\ [][NextAuth]_vars

SpecHdr == InitAuth /\ [][NextHdr]_vars

\* The session, and the ErrorHandler method that touches localStorage.
NextCred ==
  \/ CheckAuthStatus
  \/ \E k \in DOMAIN calls : Retry(k)
  \/ \E k \in DOMAIN calls : RestoreOk(k)
  \/ \E k \in DOMAIN calls : RestoreFail(k)
  \/ \E k \in DOMAIN calls : RestoreCleanupDone(k)
  \/ \E op \in {"login", "register"}, u \in Users : LoginCall(op, u)
  \/ \E k \in DOMAIN calls : LoginOk(k)
  \/ \E k \in DOMAIN calls : LoginFail(k)
  \/ LogoutCall
  \/ \E k \in DOMAIN calls, ok \in BOOLEAN : LogoutDone(k, ok)
  \/ HandleAuthenticationError

SpecCred == InitAuth /\ [][NextCred]_vars

SpecLive == Init /\ [][NextLive]_vars /\ ServerAccepts

\* A deactivating client's socket does close.
DeactivationEnds ==
  \A c \in 1..MaxLogins : WF_vars(c \in DOMAIN clients /\ WsDeactivated(c))

\* The channel with a server that accepts connections and closes the
\* sockets of deactivated clients.
SpecSub == Init /\ [][NextLive]_vars /\ ServerAccepts /\ DeactivationEnds

InitReq ==
  /\ script \in [1..ScriptLen -> FetchOutcomes]
  /\ reqPc = "fetch"
  /\ retries = RETRY_ATTEMPTS
  /\ attempts = 0
  /\ result = NoResult
  /\ InitChat
  /\ SessIdle
  /\ ErrIdle

\* One fetch of the running frame and what the frame does with it.
Fetch ==
  /\ reqPc = "fetch"
  /\ attempts < ScriptLen
  /\ attempts' = attempts + 1
  /\ LET t == TryBlock(script[attempts + 1])
         c == IF t.kind = "return" THEN t ELSE CatchBlock(t, retries)
     IN  IF c.kind = "retry"
           THEN /\ reqPc' = "delay"
                /\ UNCHANGED result
           ELSE /\ reqPc' = "done"
                /\ result' = c
  /\ UNCHANGED <<script, retries>>
  /\ UNCHANGED chatVars
  /\ UNCHANGED sessVars
  /\ UNCHANGED <<loadVars, errVars>>

\* await this.delay(this.retryDelay); return this.makeRequest(url, options, retries - 1)
Delay ==
  /\ reqPc = "delay"
  /\ retries' = retries - 1
  /\ reqPc' = "fetch"
  /\ UNCHANGED <<script, attempts, result>>
  /\ UNCHANGED chatVars
  /\ UNCHANGED sessVars
  /\ UNCHANGED <<loadVars, errVars>>

NextReq == Fetch \/ Delay

SpecReq == InitReq /\ [][NextReq]_vars

(***************************************************************************)
(* Properties                                                              *)
(***************************************************************************)

Is2xx(o) == o.kind = "response" /\ o.status >= 200 /\ o.status <= 299
Is4xx(o) == o.kind = "response" /\ o.status >= 400 /\ o.status <= 499
Is5xx(o) == o.kind = "response" /\ o.status >= 500 /\ o.status <= 599

\* C1: after a sendMessage whose persist request succeeded, the room holds
\* exactly one message more than before the call, also once the push echo of
\* that message has been handled (before or after the success response).
C1_SendCountStable ==
  \A k \in DOMAIN sends :
    (sends[k].pc = "ok" /\ sends[k].aloneButEcho)
      => Len(RoomMessages(chats, sends[k].roomId)) = Len(sends[k].pre) + 1

\* C2: a sendMessage whose persist request failed leaves the room's
\* canonical list as it was just before the call, no other event intervening.
C2_FailedSendRestoresChats ==
  \A k \in DOMAIN sends :
    (sends[k].pc = "failed" /\ sends[k].alone)
      => RoomMessages(chats, sends[k].roomId) = sends[k].pre

\* C3: a failed sendMessage to the active room leaves the active mirror's
\* list as it was before the call (the provisional message is removed).
C3_FailedSendRestoresMirror ==
  \A k \in DOMAIN sends :
    (sends[k].pc = "failed" /\ sends[k].alone /\ sends[k].wasActive)
      => activeChat.messages = sends[k].preActive

\* C4: a request makes at most 3 attempts in total, and one that meets 503
\* on three attempts ends with the server fault and no 4th attempt.
C4_AtMostThreeAttempts ==
  /\ attempts <= 3
  /\ (reqPc = "done" /\ \A i \in 1..3 : Is5xx(script[i]) /\ script[i].status = 503)
       => (result.kind = "throw" /\ result.name = "ApiError"
           /\ result.status = 503 /\ attempts <= 3)

\* C5: an attempt that fails with a 5xx response is re-attempted while the
\* budget of 3 attempts lasts; a 5xx followed by a 2xx ends in success.
C5_ServerFaultRetried ==
  /\ \A k \in 1..attempts :
       (Is5xx(script[k]) /\ k < 3) => ~(reqPc = "done" /\ attempts = k)
  /\ (reqPc = "done" /\ Is5xx(script[1]) /\ Is2xx(script[2]))
       => result.kind = "return"

\* C6: an attempt that fails with a 4xx response (422 included) is the
\* call's last: no further attempt is made and the fault is raised.
C6_ClientFaultNotRetried ==
  \A k \in 1..attempts :
    Is4xx(script[k])
      => /\ attempts = k
         /\ reqPc = "done"
         /\ result.kind = "throw"
         /\ IF script[k].status = 422
              THEN result.name = "ValidationError"
              ELSE result.name = "ApiError" /\ result.status = script[k].status

\* C6's case: a first attempt answered 422 has ended the call.
C6_Witness ==
  /\ reqPc = "done"
  /\ attempts = 1
  /\ Is4xx(script[1]) /\ script[1].status = 422
  /\ result.name = "ValidationError"

\* C7: when a client that had lost its connection reconnects, it is
\* subscribed to exactly the inbox and the rooms listed when it was lost.
C7_ResubscribeExact ==
  [][\A c \in DOMAIN clients :
       (clients[c].everConnected /\ ~clients[c].connected
          /\ clients'[c].connected)
         => DestsOf(subs', c) =
              {InboxDest(clients[c].capUser)}
                \cup { RoomDest(r) : r \in clients[c].roomsAtClose }]_vars

\* C8: when a connection is established, the client is subscribed to the
\* user's inbox and to every room in the room list at that moment.
C8_SubscribeOnConnect ==
  [][\A c \in DOMAIN clients :
       (~clients[c].connected /\ clients'[c].connected)
         => /\ InboxDest(currentUser) \in DestsOf(subs', c)
            /\ \A r \in RoomIds(chats) : RoomDest(r) \in DestsOf(subs', c)]_vars

ActiveClients(cl) == { c \in DOMAIN cl : cl[c].activation = "ACTIVE" }
ConnectedClients(cl) == { c \in DOMAIN cl : cl[c].connected }

\* C9: a transition into Authenticated leaves an activated client behind
\* (a connect), a transition out leaves none, and while the session is not
\* Authenticated no client is activated and none connects.
C9_ConnectFollowsSession ==
  [][/\ (~isAuthenticated /\ isAuthenticated')
          => (stompClientRef' # 0
              /\ clients'[stompClientRef'].activation = "ACTIVE")
     /\ (isAuthenticated /\ ~isAuthenticated')
          => ActiveClients(clients') = {}
     /\ (~isAuthenticated /\ ~isAuthenticated')
          => (ActiveClients(clients') = {}
              /\ ConnectedClients(clients') \subseteq ConnectedClients(clients))
    ]_vars

\* C10: at most one client is activated and at most one connected, at any
\* time; a connect made while the referenced client is connected builds no
\* client and changes nothing of the channel.
C10_SingleConnection ==
  [][/\ Cardinality(ActiveClients(clients')) <= 1
     /\ Cardinality(ConnectedClients(clients')) <= 1
     /\ (~isAuthenticated /\ isAuthenticated'
           /\ stompClientRef # 0 /\ clients[stompClientRef].connected)
          => UNCHANGED wsVars
    ]_vars

\* C10's case: a second login called connect while the first client was
\* still connected, and no second client was built.
C10_Witness ==
  /\ nLogins = 2
  /\ isAuthenticated
  /\ Len(clients) = 1
  /\ clients[1].connected

\* The channel was connected in this run and is not now, in a session that
\* is Authenticated.
ChannelLost ==
  /\ isAuthenticated
  /\ ~isWebSocketConnected
  /\ \E c \in DOMAIN clients : clients[c].everConnected

ChannelUp ==
  /\ isWebSocketConnected
  /\ \E c \in DOMAIN clients : clients[c].connected

\* C11: with a server that accepts connections, a channel lost while the
\* session is Authenticated is connected again, with the connection status
\* true, unless the session stops being Authenticated first; ERROR frames
\* do not stop this.
C11_LostChannelReconnects ==
  ChannelLost ~> (ChannelUp \/ ~isAuthenticated)

\* checkAuthStatus has just begun (the mount effect ran in this step).
RestoreBegins == calls = <<>> /\ calls' # <<>>

\* Call k, awaiting its request, gets its answer in this step.
Answered(k) == calls[k].pc = "awaiting" /\ calls'[k].pc # "awaiting"

\* C12: when localStorage holds, at startup, the token an earlier login or
\* register stored, checkAuthStatus fetches the profile, and when that fetch
\* succeeds the session is Authenticated with the fetched user and that token.
C12_RestoreFetchesPersisted ==
  [][/\ (RestoreBegins /\ storage[TOKEN] # "null")
          => (calls'[1].fetched /\ calls'[1].pc = "awaiting")
     /\ \A k \in DOMAIN calls :
          (calls[k].op = "restore" /\ calls[k].persisted # "null"
             /\ Answered(k) /\ calls'[k].pc = "returned")
            => /\ isAuthenticated'
               /\ currentUser' = UserOf(calls[k].persisted)
               /\ token' = calls[k].persisted
    ]_vars

\* checkAuthStatus, after a failed profile fetch, completes in this step.
RestoreFailedCompletes(k) ==
  /\ calls[k].op = "restore"
  /\ calls[k].pc = "cleanup"
  /\ calls'[k].pc = "returned"

\* C13: when checkAuthStatus has completed after its profile fetch failed,
\* localStorage holds no token (not under the key it was read from, not
\* under STORAGE_KEYS.TOKEN) and no cached user, the session is not
\* Authenticated, and exactly one notification was dispatched for the failure.
C13_FailedRestoreClears ==
  [][\A k \in DOMAIN calls :
       RestoreFailedCompletes(k)
         => /\ storage'["token"] = "null"
            /\ storage'[TOKEN] = "null"
            /\ storage'[USER] = "null"
            /\ ~isAuthenticated'
            /\ notifications'["checkAuthStatus"] = 1
    ]_vars

\* login or register call k fails in this step.
LoginFails(k) ==
  /\ calls[k].op \in {"login", "register"}
  /\ Answered(k)
  /\ ~calls'[k].serverOk

\* C14, as the claim states it: a failed login or register is routed to
\* handleError once, re-raised, and leaves the session not Authenticated
\* whatever it was before.
C14_FailedLoginNotAuthenticated ==
  [][\A k \in DOMAIN calls :
       LoginFails(k)
         => /\ notifications' = handleError(notifications, calls[k].op)
            /\ calls'[k].pc = "thrown"
            /\ ~isAuthenticated'
    ]_vars

\* C14, amended: a failed login or register is routed to handleError exactly
\* once and re-raised, and changes neither the session nor localStorage: the
\* session is not Authenticated afterwards unless it was just before.
C14_FailedLoginChangesNothing ==
  [][\A k \in DOMAIN calls :
       LoginFails(k)
         => /\ notifications' = handleError(notifications, calls[k].op)
            /\ calls'[k].pc = "thrown"
            /\ UNCHANGED <<isAuthenticated, token, currentUser, storage>>
            /\ (~isAuthenticated => ~isAuthenticated')
    ]_vars

\* C14's case: a login or register has failed and was re-raised, with one
\* notification, in a session that is not Authenticated.
C14_Witness ==
  \E k \in DOMAIN calls :
    /\ calls[k].op \in {"login", "register"}
    /\ calls[k].pc = "thrown"
    /\ notifications[calls[k].op] = 1
    /\ ~isAuthenticated

C16_HeaderFollowsStorage ==
  request.via # "none"
    => request.authorization =
         IF request.stored # "null"
           THEN Header("Bearer", request.stored)
           ELSE NoHeader

Last(sq) == sq[Len(sq)]

HasId(sq, id) == \E i \in DOMAIN sq : sq[i].id = id

\* C17: the step that calls sendMessage leaves, before the persist request
\* is answered, a provisional message with a "temp" id at the end of the
\* room's list and, if the room is active, at the end of the active mirror;
\* the step in which the persist succeeds changes neither list.
C17_ProvisionalAppended ==
  [][/\ Len(sends') = Len(sends) + 1
          => LET s == Last(sends')
                 m == optimisticMessage(s.roomId, now)
             IN  /\ s.pc = "awaiting"
                 /\ s.optId = m.id /\ m.id[1] = "temp"
                 /\ RoomMessages(chats', s.roomId)
                      = Append(RoomMessages(chats, s.roomId), m)
                 /\ ActiveId(activeChat) = s.roomId
                      => activeChat'.messages = Append(activeChat.messages, m)
     /\ \A k \in DOMAIN sends :
          (sends[k].pc = "persisted" /\ sends'[k].pc = "ok")
            => UNCHANGED <<chats, activeChat>>
    ]_vars

\* C17's case: a send to the active room has succeeded and its provisional
\* message is in the room's list and in the mirror.
C17_Witness ==
  \E k \in DOMAIN sends :
    /\ sends[k].pc = "ok"
    /\ sends[k].wasActive
    /\ HasId(RoomMessages(chats, sends[k].roomId), sends[k].optId)
    /\ HasId(activeChat.messages, sends[k].optId)

\* lastMessage of the first room of `cs` with this id
RoomLastMessage(cs, roomId) ==
  cs[CHOOSE i \in DOMAIN cs :
       cs[i].id = roomId /\ \A j \in 1..(i-1) : cs[j].id # roomId].lastMessage

\* The frame d is handed to handleWebSocketMessage in this step.
Handled(d) == deliveries' = deliveries \ {d} /\ subs' = subs

\* C18: handling a NEW_MESSAGE for a room of the room list appends the
\* message to that room's list, makes it the room's lastMessage and, if the
\* room is the active room at that moment, appends it to the active mirror.
C18_PushReachesRoomAndMirror ==
  [][\A d \in deliveries :
       (Handled(d) /\ d.msg.roomId \in RoomIds(chats))
         => /\ RoomMessages(chats', d.msg.roomId)
                 = Append(RoomMessages(chats, d.msg.roomId), d.msg)
            /\ RoomLastMessage(chats', d.msg.roomId) = d.msg
            /\ ActiveId(activeChat) = d.msg.roomId
                 => activeChat'.messages = Append(activeChat.messages, d.msg)
    ]_vars

\* createRoom call c gets its answer in this step; it succeeded if the catch
\* block (handleError) did not run.
CreateAnswered(c) == creates' = creates \ {c}

\* C19: when createRoom's persist succeeds, the room is appended to the room
\* list and, once the call has completed, some subscription to the room's
\* destination exists, no client having been built or connected for it;
\* when the persist fails, the room list and the subscriptions are unchanged.
C19_CreatedRoomSubscribed ==
  [][\A c \in creates :
       CreateAnswered(c)
         => IF notifications' = notifications
              THEN /\ chats' = Append(chats, mapChatRoomResponseToChat(c.roomId))
                   /\ RoomDest(c.roomId) \in { x.dest : x \in subs' }
                   /\ clients' = clients
              ELSE UNCHANGED <<chats, subs>>
    ]_vars

\* A loadChats call gets its answer in this step, and it is a success (the
\* catch block did not run).
LoadSucceeds ==
  /\ \E b \in BOOLEAN : loads'[b] = loads[b] - 1
  /\ notifications' = notifications

\* C20: when loadChats succeeds the room list becomes the loaded list, and
\* the first loaded room becomes the active room exactly if no room is
\* active when the result is applied; an active room is never replaced.
C20_LoadKeepsActiveRoom ==
  [][LoadSucceeds
       => /\ \E rl \in RoomLists :
               chats' = [i \in DOMAIN rl |-> mapChatRoomResponseToChat(rl[i])]
          /\ (activeChat = NoChat /\ Len(chats') > 0) => activeChat' = chats'[1]
          /\ activeChat # NoChat => activeChat' = activeChat
    ]_vars

\* A step in which getRoomMessages() of call k resolves.
LoadMessagesResolves(k) ==
  msgLoads[k].pc = "awaiting" /\ msgLoads'[k].pc = "ok"

IsAscending(sq) ==
  \A i \in DOMAIN sq : \A j \in DOMAIN sq : i < j => sq[i].ts <= sq[j].ts

Occurrences(sq, m) == Cardinality({ i \in DOMAIN sq : sq[i] = m })

SameMessages(a, b) ==
  /\ Len(a) = Len(b)
  /\ \A i \in DOMAIN b : Occurrences(a, b[i]) = Occurrences(b, b[i])

\* C21: when loadMessages(roomId) succeeds, the room's messages in chats
\* are the fetched messages, each once, in ascending timestamp order; every
\* other room and the length and ids of the list are unchanged; and applying
\* the same fetched list to the resulting list changes nothing.
C21_LoadReplacesRoom ==
  [][\A k \in DOMAIN msgLoads :
       LoadMessagesResolves(k)
         => LET r == msgLoads[k].roomId
                body == msgLoads'[k].body
            IN  /\ DOMAIN chats' = DOMAIN chats
                /\ \A i \in DOMAIN chats :
                     /\ chats'[i].id = chats[i].id
                     /\ IF chats[i].id = r
                          THEN /\ SameMessages(chats'[i].messages, body)
                               /\ IsAscending(chats'[i].messages)
                          ELSE chats'[i] = chats[i]
                /\ LoadMessagesToChats(chats', r, body) = chats']_vars

\* A fetched list that was not in timestamp order has been stored, sorted.
C21_Witness ==
  \E k \in DOMAIN msgLoads :
    /\ msgLoads[k].pc = "ok"
    /\ Len(msgLoads[k].body) = 2
    /\ msgLoads[k].body[1].ts > msgLoads[k].body[2].ts
    /\ RoomMessages(chats, msgLoads[k].roomId)
         = <<msgLoads[k].body[2], msgLoads[k].body[1]>>
    /\ \E i \in DOMAIN chats : chats[i].id # msgLoads[k].roomId

\* Rooms for which a loadMessages call has succeeded.
LoadedRooms == { msgLoads[k].roomId : k \in { j \in DOMAIN msgLoads :
                                                msgLoads[j].pc = "ok" } }

\* A step that changes the active room and neither the room list nor a
\* loadChats call: handleSetActiveChat.
Activates ==
  activeChat' # activeChat /\ chats' = chats /\ loads' = loads

\* A step in which getRoomMessages() is called.
FetchIssued == Len(msgLoads') > Len(msgLoads)

\* C22 (as stated): setActiveChat(room) makes the room active and calls
\* loadMessages for it exactly when its cached messages are empty; a room
\* that has been loaded or holds messages is not fetched on activation; and
\* loadMessages is called by no other handler.
C22_ActivationLoadsUnloaded ==
  [][/\ Activates
        => /\ FetchIssued <=> (activeChat' # NoChat
                                 /\ RoomMessages(chats, activeChat'.id) = <<>>)
           /\ (activeChat'.id \in LoadedRooms
                 \/ RoomMessages(chats, activeChat'.id) # <<>>) => ~FetchIssued
     /\ FetchIssued
        => /\ chats' = chats /\ loads' = loads
           /\ LET l == msgLoads'[Len(msgLoads')]
              IN  l.by # "ui" => l.roomId = activeChat'.id]_vars

\* C22 (amended): setActiveChat(room) makes the room active and calls
\* loadMessages for it exactly when its cached messages are empty, whether
\* or not the room was loaded before; loadMessages is called by no other
\* handler.
C22_ActivationLoadsEmpty ==
  [][/\ Activates
        => /\ FetchIssued <=> (activeChat' # NoChat
                                 /\ RoomMessages(chats, activeChat'.id) = <<>>)
           /\ FetchIssued
                => msgLoads'[Len(msgLoads')] = MsgLoad(activeChat'.id,
                                                       "setActiveChat")
     /\ FetchIssued
        => /\ chats' = chats /\ loads' = loads
           /\ LET l == msgLoads'[Len(msgLoads')]
              IN  l.by # "ui" => l.roomId = activeChat'.id]_vars

\* A room that holds a message is active with that message in the mirror
\* (it was activated after the message arrived) and no fetch was issued for
\* it; another room, loaded with an empty list, has been fetched again.
C22_Witness ==
  /\ activeChat # NoChat
  /\ activeChat.messages # <<>>
  /\ activeChat.messages = RoomMessages(chats, activeChat.id)
  /\ \A k \in DOMAIN msgLoads : msgLoads[k].roomId # activeChat.id
  /\ Len(msgLoads) = 2
  /\ msgLoads[1].pc = "ok" /\ msgLoads[1].body = <<>>
  /\ msgLoads[2].by = "setActiveChat"
  /\ msgLoads[2].roomId = msgLoads[1].roomId

NoSharedId(sq) ==
  \A i \in DOMAIN sq : \A j \in DOMAIN sq : sq[i].id = sq[j].id => i = j

\* C23: within each room's message list no two messages have the same id.
C23_MessageIdsUnique ==
  \A i \in DOMAIN chats : NoSharedId(chats[i].messages)

\* C24: each room's message list is in non-decreasing timestamp order.
C24_MessagesAscending ==
  \A i \in DOMAIN chats : IsAscending(chats[i].messages)

\* C25: the room list holds no two rooms with the same id.
C25_RoomIdsUnique == NoSharedId(chats)

\* C26 (as stated): a 4xx response that carries field errors, 400 or 422,
\* ends the call with a ValidationError carrying them.
C26_FieldErrorsReclassified ==
  \A k \in 1..attempts :
    (Is4xx(script[k]) /\ script[k].validationErrors)
      => /\ reqPc = "done"
         /\ result = ValidationError(TRUE)

\* C26 (amended): a 422 response ends the call with a ValidationError that
\* carries the response's field errors (none if it has none); a 400
\* response ends it with the ApiError of status 400, which carries the
\* response's field errors in its error data.
C26_OnlyUnprocessableReclassified ==
  \A k \in 1..attempts :
    Is4xx(script[k])
      => /\ reqPc = "done"
         /\ attempts = k
         /\ IF script[k].status = 422
              THEN result = ValidationError(script[k].validationErrors)
              ELSE result = ApiError(script[k].status,
                                     script[k].validationErrors)

\* A 400 response with field errors has ended the call with an ApiError.
C26_Witness ==
  /\ reqPc = "done"
  /\ attempts >= 1
  /\ script[attempts].kind = "response"
  /\ script[attempts].status = 400
  /\ script[attempts].validationErrors
  /\ result.name = "ApiError"
  /\ result.validationErrors

\* C27: an attempt that has no response by its deadline ends the call with
\* NetworkError('Request timeout'), and no call returns a response that
\* was complete only after the deadline.
C27_DeadlineEnforced ==
  /\ \A k \in 1..attempts :
       script[k].kind = "abort"
         => /\ reqPc = "done"
            /\ attempts = k
            /\ result = NetworkError("Request timeout")
  /\ result.kind = "return" => ~result.afterDeadline

\* C28: a 2xx response with status 204 or with an empty body ends the call
\* with null, and any other 2xx response with its decoded body.
C28_EmptyBodyGivesNull ==
  \A k \in 1..attempts :
    Is2xx(script[k])
      => /\ reqPc = "done"
         /\ attempts = k
         /\ result.kind = "return"
         /\ result.value = IF script[k].status = 204 \/ script[k].bodyEmpty
                             THEN "null" ELSE "body"

\* C29: for every fault, handleError gives a notification; its type is
\* warning for 429 and error otherwise; its duration is 8000 for 400/422
\* with field errors, for 502/503/504 and for network faults, and 5000
\* otherwise; and it has an action exactly for 401, 409, 500, 502/503/504
\* and network faults.
C29_NotificationTable ==
  handled # NoCall
    => LET e == handled.error
           n == handled.result
           api == e.name = "ApiError"
       IN  /\ n.kind = "notification"
           /\ n.type = IF api /\ e.status = 429 THEN "warning" ELSE "error"
           /\ n.duration =
                IF \/ api /\ e.status \in {400, 422} /\ e.errorData = "fields"
                   \/ e.name = "ValidationError" /\ e.errorData = "fields"
                   \/ api /\ e.status \in {502, 503, 504}
                   \/ e.name = "NetworkError"
                  THEN 8000 ELSE 5000
           /\ (n.action # "none")
                <=> \/ api /\ e.status \in {401, 409, 500, 502, 503, 504}
                    \/ e.name = "NetworkError"

\* A step in which handleError runs.
HandleErrorRuns ==
  handled' # handled \/ Len(shownNotifications') > Len(shownNotifications)

\* C30: handleError invokes no retry callback; a callback is invoked only
\* by a click on the action of a notification shown for the callback's
\* context (the key `context || 'default'`), and it is the callback that is
\* registered under that key at the click; the action of a 500 notification
\* reloads the page if none is registered, and the action of a 502/503/504
\* or network notification then does nothing.
C30_RetryOnlyOnTrigger ==
  [][/\ HandleErrorRuns => triggers' = triggers
     /\ triggers' # triggers
        => LET t == triggers'[Len(triggers')]
               n == t.notification
               cb == retryCallbacks[RetryKey(n.context)]
           IN  /\ triggers' = Append(triggers, t)
               /\ \E i \in DOMAIN shownNotifications :
                    shownNotifications[i] = n
               /\ t.effect.kind = "callback"
                    => /\ n.title \in {"Server Error", "Server Unavailable",
                                       "Network Error"}
                       /\ cb # "none"
                       /\ t.effect.callback = cb
               /\ n.title = "Server Error"
                    => t.effect = IF cb # "none" THEN Effect("callback", cb)
                                  ELSE Effect("reload", "none")
               /\ n.title \in {"Server Unavailable", "Network Error"}
                    => t.effect = IF cb # "none" THEN Effect("callback", cb)
                                  ELSE Effect("none", "none")]_vars

\* The callback registered first has been replaced, and a click on the
\* action of a 500 notification has invoked the one registered at the click.
C30_Witness ==
  /\ Len(triggers) = 1
  /\ triggers[1].notification.title = "Server Error"
  /\ triggers[1].notification.context = "sendMessage"
  /\ triggers[1].effect = Effect("callback", "cb2")
  /\ retryCallbacks["sendMessage"] = "cb2"
  /\ retryCallbacks["default"] = "cb1"

\* A step of a session operation (restore, login, register, logout): one of
\* its calls begins or moves on.
SessionOpSteps ==
  \/ Len(calls') > Len(calls)
  \/ \E k \in DOMAIN calls :
       /\ k \in DOMAIN calls'
       /\ calls'[k] # calls[k]
       /\ calls[k].op \in {"restore", "login", "register", "logout"}

\* C31: localStorage changes only in a step of a session operation.
C31_StorageWrittenBySessionOnly ==
  [][storage' # storage => SessionOpSteps]_vars

\* No call of ChatProvider is awaiting its response and no pushed frame is
\* waiting for its handler.
ChatQuiet ==
  /\ \A b \in BOOLEAN : loads[b] = 0
  /\ \A k \in DOMAIN msgLoads : msgLoads[k].pc # "awaiting"
  /\ \A k \in DOMAIN sends : sends[k].pc \notin {"awaiting", "persisted"}
  /\ creates = {}
  /\ deliveries = {}

\* C32: when a room of the list is active and nothing is in flight,
\* activeChat's messages are the messages of that room in chats.
C32_MirrorEqualsCanonical ==
  (ChatQuiet /\ activeChat # NoChat /\ activeChat.id \in RoomIds(chats))
    => activeChat.messages = RoomMessages(chats, activeChat.id)

\* A connected client holds a subscription to the room's destination.
RoomSubscribed(r) ==
  \E x \in subs : x.dest = RoomDest(r) /\ clients[x.client].connected

\* C33: while the channel is connected, a room of the list is eventually
\* subscribed (unless the channel is lost or the room leaves the list).
C33_RoomsEventuallySubscribed ==
  \A r \in Rooms :
    (isWebSocketConnected /\ r \in RoomIds(chats))
      ~> (RoomSubscribed(r) \/ ~isWebSocketConnected
            \/ r \notin RoomIds(chats))

\* C34: a provisional message of an in-flight send that is in a room when a
\* loadMessages for that room completes is in the room afterwards.  (A
\* loadMessages of handleSetActiveChat starts on a room without messages, so
\* a message that is in the room at completion was appended while the load
\* was in flight.)
C34_AppendedSurvivesLoad ==
  [][\A k \in DOMAIN msgLoads :
       LoadMessagesResolves(k) =>
         \A j \in DOMAIN sends :
           (/\ sends[j].pc = "awaiting"
            /\ sends[j].roomId = msgLoads[k].roomId
            /\ HasId(RoomMessages(chats, sends[j].roomId), sends[j].optId))
             => HasId(RoomMessages(chats', sends[j].roomId), sends[j].optId)]_vars

SendFails(k) ==
  sends[k].pc \in {"awaiting", "persisted"} /\ sends'[k].pc = "failed"

Others(sq, id) == SelectSeq(sq, LAMBDA m : m.id # id)

\* C35: the rollback of a failed send takes at most one message out of the
\* room, the send's own provisional message: the provisional messages of
\* other sends and pushed messages stay, in their order.
C35_RollbackRemovesOwnOnly ==
  [][\A k \in DOMAIN sends :
       SendFails(k) =>
         LET before == RoomMessages(chats, sends[k].roomId)
             after  == RoomMessages(chats', sends[k].roomId)
         IN  /\ Others(after, sends[k].optId) = Others(before, sends[k].optId)
             /\ Len(after) >= Len(before) - 1
             /\ \A j \in DOMAIN sends \ {k} :
                  (/\ sends[j].pc \in {"awaiting", "persisted"}
                   /\ sends[j].roomId = sends[k].roomId
                   /\ HasId(before, sends[j].optId))
                    => HasId(after, sends[j].optId)]_vars

\* A second session, of another user than the one the first client was
\* built for, with every loadChats call returned.
NewSessionLoaded ==
  /\ nLogins = 2
  /\ isAuthenticated
  /\ clients # <<>>
  /\ clients[1].capUser # currentUser
  /\ \A b \in BOOLEAN : loads[b] = 0

\* C36: after a logout and a login as another user, once the loadChats calls
\* have returned, a session that holds no room has no active room either:
\* no active-room pointer (with its messages) is left from the session
\* before.
C36_NoPreviousSessionState ==
  (NewSessionLoaded /\ chats = <<>>) => activeChat = NoChat

\* C37: when no operation is in flight, the active room is null or a room
\* of the current list.
C37_ActiveRoomInList ==
  ChatQuiet => (activeChat = NoChat \/ activeChat.id \in RoomIds(chats))

\* checkAuthStatus has run and no session operation is at an await.
SessionQuiet ==
  /\ calls # <<>>
  /\ \A k \in DOMAIN calls : calls[k].pc \in {"returned", "thrown"}

\* C38: when no session operation is in flight, the session is Authenticated
\* exactly if localStorage holds a token under STORAGE_KEYS.TOKEN, and an
\* Authenticated session has a user and a token.
C38_AuthenticatedIffStoredToken ==
  SessionQuiet =>
    /\ isAuthenticated <=> (storage[TOKEN] # "null")
    /\ isAuthenticated => (currentUser # "null" /\ token # "null")

\* C39: every handleError call returns a notification and dispatches that
\* one notification; it raises no error.
C39_HandleErrorTotal ==
  [][handled' # handled
       => /\ handled'.result.kind = "notification"
          /\ shownNotifications' = Append(shownNotifications, handled'.result)
    ]_vars

\* C40: an attempt cancelled by its deadline is the call's last, and the
\* call ends with NetworkError('Request timeout') without a further attempt;
\* an attempt that fetch() rejects for another reason is followed by a
\* further attempt as long as the frame's `retries` is above 0, and the
\* call ends with NetworkError('Network request failed') once it is 0.
C40_TimeoutNotRetried ==
  /\ \A k \in 1..attempts :
       script[k].kind = "abort"
         => /\ attempts = k
            /\ reqPc = "done"
            /\ result = NetworkError("Request timeout")
  /\ \A k \in 1..attempts :
       script[k].kind = "reject"
         => IF k <= RETRY_ATTEMPTS
              THEN ~(reqPc = "done" /\ attempts = k)
              ELSE /\ attempts = k
                   /\ reqPc = "done"
                   /\ result = NetworkError("Network request failed")

\* A first attempt that was rejected has been followed by a second one, and
\* that one, cancelled by its deadline, ended the call with the timeout.
C40_Witness ==
  /\ reqPc = "done"
  /\ attempts = 2
  /\ script[1].kind = "reject"
  /\ script[2].kind = "abort"
  /\ result = NetworkError("Request timeout")
====
